---------------------------- MODULE Spec2Model ----------------------------
(***************************************************************************)
(* A model of app.py, the research paper analyzer: the inference client    *)
(* query_huggingface with its process-wide memo, the PDF text extractor,   *)
(* analyze_paper, compare_papers, and the three pages that read and write  *)
(* the session store (papers, comparison_result).                          *)
(*                                                                         *)
(* Python strings are sequences of one-character strings, so that strip,   *)
(* startswith, slicing, split and replace are computed, not assumed.       *)
(***************************************************************************)
EXTENDS Integers, Sequences, FiniteSets, TLC

VARIABLES
    page,               \* the sidebar radio's value (line 186)
    papers,             \* st.session_state.papers
    comparison_result,  \* st.session_state.comparison_result: <<>> is None
    selected_titles,    \* the multiselect's value on the Compare page
    cache,              \* st.cache_data's memo of query_huggingface
    netCalls,           \* history: the number of requests.post calls made
    callLog,            \* history: each call's key and value, whether it
                        \* posted, and whether the request failed
    analyzed,           \* history: the (title, text) of each analyze_paper call
    prompt,             \* SpecQuery: the prompt argument
    response,           \* SpecQuery: what requests.post does
    returned,           \* SpecQuery: what query_huggingface returned
    pc                  \* SpecQuery: "call" before the call, "done" after

vars == <<page, papers, comparison_result, selected_titles, cache, netCalls,
          callLog, analyzed, prompt, response, returned, pc>>

sessionVars == <<page, papers, comparison_result, selected_titles, cache,
                 netCalls, callLog, analyzed>>

queryVars == <<prompt, response, returned, pc>>

---------------------------------------------------------------------------
(* Python's str operations.                                                *)

IsSpace(c) == c \in {" ", "\n", "\t", "\r"}

Min(S) == CHOOSE i \in S : \A j \in S : i <= j

\* s[:n]
Take(s, n) == SubSeq(s, 1, IF Len(s) < n THEN Len(s) ELSE n)

\* s[n:]
Drop(s, n) == SubSeq(s, n + 1, Len(s))

\* the first index at or after i that holds no whitespace, else Len(s) + 1
RECURSIVE SkipSpace(_, _)
SkipSpace(s, i) ==
    IF i > Len(s) \/ ~IsSpace(s[i]) THEN i ELSE SkipSpace(s, i + 1)

\* the last index at or before i that holds no whitespace, else 0
RECURSIVE SkipSpaceBack(_, _)
SkipSpaceBack(s, i) ==
    IF i < 1 \/ ~IsSpace(s[i]) THEN i ELSE SkipSpaceBack(s, i - 1)

\* s.strip()
Strip(s) == SubSeq(s, SkipSpace(s, 1), SkipSpaceBack(s, Len(s)))

\* s.startswith(p)
StartsWith(s, p) == Len(p) <= Len(s) /\ SubSeq(s, 1, Len(p)) = p

\* the pieces of s between the positions cuts, from position from on
RECURSIVE Pieces(_, _, _)
Pieces(s, cuts, from) ==
    IF cuts = {} THEN <<SubSeq(s, from, Len(s))>>
    ELSE <<SubSeq(s, from, Min(cuts) - 1)>>
             \o Pieces(s, cuts \ {Min(cuts)}, Min(cuts) + 1)

\* s.split('\n')
Split(s) == Pieces(s, {i \in 1..Len(s) : s[i] = "\n"}, 1)

\* s.replace(old, new), for a non-empty old
RECURSIVE Replace(_, _, _)
Replace(s, old, new) ==
    LET at == {i \in 1..(Len(s) - Len(old) + 1) :
                  SubSeq(s, i, i + Len(old) - 1) = old}
    IN  IF at = {} THEN s
        ELSE SubSeq(s, 1, Min(at) - 1) \o new
                 \o Replace(Drop(s, Min(at) + Len(old) - 1), old, new)

\* [f(x) for x in xs if keep(x)], for the two comprehensions that strip lines
RECURSIVE StrippedNonBlank(_)
StrippedNonBlank(lines) ==
    IF lines = <<>> THEN <<>>
    ELSE (IF Strip(Head(lines)) # <<>> THEN <<Strip(Head(lines))>> ELSE <<>>)
             \o StrippedNonBlank(Tail(lines))

\* "\n".join(parts)
RECURSIVE Join(_)
Join(parts) ==
    IF parts = <<>> THEN <<>>
    ELSE IF Len(parts) = 1 THEN parts[1]
    ELSE parts[1] \o <<"\n">> \o Join(Tail(parts))

Digit(d) == <<"0", "1", "2", "3", "4", "5", "6", "7", "8", "9">>[d + 1]

\* str(n), n >= 0
RECURSIVE IntToStr(_)
IntToStr(n) == IF n < 10 THEN <<Digit(n)>> ELSE IntToStr(n \div 10) \o <<Digit(n % 10)>>

---------------------------------------------------------------------------
(* The string literals of app.py.                                          *)

NoResponse ==
    <<"N","o"," ","r","e","s","p","o","n","s","e"," ","g","e","n","e","r",
      "a","t","e","d">>

InvalidFormat ==
    <<"I","n","v","a","l","i","d"," ","r","e","s","p","o","n","s","e"," ",
      "f","o","r","m","a","t">>

ApiErrorPrefix ==
    <<"A","P","I"," ","E","r","r","o","r",":"," ">>

QueryErrorPrefix ==
    <<"E","r","r","o","r"," ","q","u","e","r","y","i","n","g"," ","A","P",
      "I",":"," ">>

ExtractError ==
    <<"E","r","r","o","r"," ","e","x","t","r","a","c","t","i","n","g"," ",
      "P","D","F"," ","t","e","x","t">>

NotAvailable ==
    <<"N","/","A">>

NoContent ==
    <<"N","o"," ","c","o","n","t","e","n","t">>

PdfSuffix ==
    <<".","p","d","f">>

ErrorWord ==
    <<"E","r","r","o","r">>

SummaryHead ==
    <<"P","r","o","v","i","d","e"," ","a"," ","b","r","i","e","f"," ","e",
      "x","e","c","u","t","i","v","e"," ","s","u","m","m","a","r","y"," ",
      "(","1","0","0","-","1","5","0"," ","w","o","r","d","s",")"," ","o",
      "f"," ","t","h","i","s"," ","r","e","s","e","a","r","c","h"," ","p",
      "a","p","e","r",":","\n","T","i","t","l","e",":"," ">>

FindingsHead ==
    <<"L","i","s","t"," ","3","-","5"," ","k","e","y"," ","f","i","n","d",
      "i","n","g","s"," ","f","r","o","m"," ","t","h","i","s"," ","r","e",
      "s","e","a","r","c","h"," ","p","a","p","e","r"," ","i","n"," ","b",
      "u","l","l","e","t"," ","p","o","i","n","t","s",":","\n","T","i","t",
      "l","e",":"," ">>

MethodologyHead ==
    <<"D","e","s","c","r","i","b","e"," ","t","h","e"," ","r","e","s","e",
      "a","r","c","h"," ","m","e","t","h","o","d","o","l","o","g","y"," ",
      "u","s","e","d"," ","i","n"," ","t","h","i","s"," ","p","a","p","e",
      "r"," ","(","5","0","-","1","0","0"," ","w","o","r","d","s",")",":",
      "\n","T","i","t","l","e",":"," ">>

ContentLabel ==
    <<"\n","C","o","n","t","e","n","t",":"," ">>

SummaryTail ==
    <<"\n","S","u","m","m","a","r","y",":">>

FindingsTail ==
    <<"\n","K","e","y"," ","F","i","n","d","i","n","g","s",":">>

MethodologyTail ==
    <<"\n","M","e","t","h","o","d","o","l","o","g","y",":">>

AgreementsHead ==
    <<"F","i","n","d"," ","2","-","3"," ","a","r","e","a","s"," ","o","f",
      " ","a","g","r","e","e","m","e","n","t"," ","b","e","t","w","e","e",
      "n"," ","t","h","e","s","e"," ","r","e","s","e","a","r","c","h"," ",
      "p","a","p","e","r","s",":","\n">>

ContradictionsHead ==
    <<"I","d","e","n","t","i","f","y"," ","a","n","y"," ","c","o","n","t",
      "r","a","d","i","c","t","i","o","n","s"," ","o","r"," ","d","i","f",
      "f","e","r","e","n","c","e","s"," ","i","n"," ","t","h","e","s","e",
      " ","p","a","p","e","r","s",":","\n">>

GapsHead ==
    <<"W","h","a","t"," ","r","e","s","e","a","r","c","h"," ","g","a","p",
      "s"," ","c","a","n"," ","b","e"," ","i","d","e","n","t","i","f","i",
      "e","d"," ","f","r","o","m"," ","t","h","e","s","e"," ","p","a","p",
      "e","r","s","?","\n">>

AgreementsTail ==
    <<"\n","A","g","r","e","e","m","e","n","t","s",":">>

ContradictionsTail ==
    <<"\n","C","o","n","t","r","a","d","i","c","t","i","o","n","s",":">>

GapsTail ==
    <<"\n","R","e","s","e","a","r","c","h"," ","G","a","p","s",":">>

TimeoutMessage ==
    <<"R","e","a","d"," ","t","i","m","e","d"," ","o","u","t","."," ","(",
      "r","e","a","d"," ","t","i","m","e","o","u","t","=","3","0",")">>

JsonMessage ==
    <<"E","x","p","e","c","t","i","n","g"," ","v","a","l","u","e",":"," ",
      "l","i","n","e"," ","1"," ","c","o","l","u","m","n"," ","1"," ","(",
      "c","h","a","r"," ","0",")">>

AttributeMessage ==
    <<"'","s","t","r","'"," ","o","b","j","e","c","t"," ","h","a","s"," ",
      "n","o"," ","a","t","t","r","i","b","u","t","e"," ","'","g","e","t",
      "'">>

---------------------------------------------------------------------------
(* requests.post and the response it gives (lines 54-58).  A response      *)
(* either raises (a timeout, a connection error) or carries a status code  *)
(* and a body; the body is not JSON, a JSON object, or a JSON list whose   *)
(* items are objects (with or without generated_text) or scalars.          *)

Item(isDict, hasText, text) ==
    [dict |-> isDict, has_text |-> hasText, generated_text |-> text]

Raises(msg) ==
    [raised |-> TRUE, message |-> msg, status_code |-> 0, json |-> "none",
     items |-> <<>>]

Status(code) ==
    [raised |-> FALSE, message |-> <<>>, status_code |-> code,
     json |-> "none", items |-> <<>>]

NotJson ==
    [raised |-> FALSE, message |-> JsonMessage, status_code |-> 200,
     json |-> "invalid", items |-> <<>>]

JsonObject ==
    [raised |-> FALSE, message |-> <<>>, status_code |-> 200,
     json |-> "object", items |-> <<>>]

JsonList(items) ==
    [raised |-> FALSE, message |-> <<>>, status_code |-> 200,
     json |-> "list", items |-> items]

Generated(text) == JsonList(<<Item(TRUE, TRUE, text)>>)

\* a response that raised, in requests.post, in .json() or in .get, or
\* whose status is not 200
Failed(r) ==
    \/ r.raised
    \/ r.status_code # 200
    \/ r.json = "invalid"
    \/ r.json = "list" /\ Len(r.items) > 0 /\ ~r.items[1].dict

---------------------------------------------------------------------------
(* query_huggingface, lines 40-67.                                         *)

\* RemovePrompt as generated_text.replace(prompt, ''): every copy goes
RemovePrompt_Replace(generated_text, p) ==
    IF StartsWith(generated_text, p) /\ p # <<>>
    THEN Strip(Replace(generated_text, p, <<>>))
    ELSE generated_text

\* lines 60-61: the echoed prompt is removed once, then the rest stripped
RemovePrompt(generated_text, p) ==
    IF StartsWith(generated_text, p)
    THEN Strip(Drop(generated_text, Len(p)))
    ELSE generated_text

\* lines 57-63: a 200 response whose body parsed
ParsedResult(p, r) ==
    IF r.json = "list" /\ Len(r.items) > 0
    THEN LET first == r.items[1]
             generated_text ==
                 Strip(IF first.has_text THEN first.generated_text ELSE <<>>)
             rest == RemovePrompt(generated_text, p)
         IN  IF ~first.dict
             THEN QueryErrorPrefix \o AttributeMessage  \* .get raises
             ELSE IF rest # <<>> THEN rest ELSE NoResponse
    ELSE InvalidFormat

\* query_huggingface with the two else branches merged: a status other
\* than 200 is reported as a bad format
query_huggingface_OneElse(p, r) ==
    IF r.raised THEN QueryErrorPrefix \o r.message
    ELSE IF r.status_code = 200 /\ r.json = "invalid"
    THEN QueryErrorPrefix \o r.message
    ELSE IF r.status_code = 200 THEN ParsedResult(p, r)
    ELSE InvalidFormat

\* lines 53-67: the body of the function, run on a cache miss
query_huggingface(p, r) ==
    IF r.raised THEN QueryErrorPrefix \o r.message
    ELSE IF r.status_code = 200
    THEN IF r.json = "invalid"
         THEN QueryErrorPrefix \o r.message             \* .json() raises
         ELSE ParsedResult(p, r)
    ELSE ApiErrorPrefix \o IntToStr(r.status_code)

---------------------------------------------------------------------------
(* st.cache_data around query_huggingface (line 40): the memo is keyed on  *)
(* the arguments (prompt, max_length), has no ttl and no max_entries, and  *)
(* the body runs, and posts, only on a miss.  A call threads the record    *)
(* s = [cache, net, log, results] through.                                 *)

CacheKey(p, max_length) == <<p, max_length>>

\* Memo without the decorator: every call runs the body
Memo_Undecorated(s, p, max_length, r) ==
    LET key == CacheKey(p, max_length)
        value == query_huggingface(p, r)
    IN  [cache |-> (key :> value) @@ s.cache,
         net |-> s.net + 1,
         log |-> s.log \cup {[key |-> key, value |-> value, network |-> TRUE,
                               failed |-> Failed(r)]},
         results |-> Append(s.results, value)]

\* Memo that keeps successes only: a failed call is tried again
Memo_SuccessesOnly(s, p, max_length, r) ==
    LET key == CacheKey(p, max_length)
        hit == key \in DOMAIN s.cache
        value == IF hit THEN s.cache[key] ELSE query_huggingface(p, r)
        failed == \/ StartsWith(value, ApiErrorPrefix)
                  \/ StartsWith(value, QueryErrorPrefix)
                  \/ value = InvalidFormat
    IN  [cache |-> IF hit \/ failed THEN s.cache
                   ELSE (key :> value) @@ s.cache,
         net |-> IF hit THEN s.net ELSE s.net + 1,
         log |-> s.log \cup {[key |-> key, value |-> value, network |-> ~hit,
                               failed |-> ~hit /\ Failed(r)]},
         results |-> Append(s.results, value)]

Memo(s, p, max_length, r) ==
    LET key == CacheKey(p, max_length)
        hit == key \in DOMAIN s.cache
        value == IF hit THEN s.cache[key] ELSE query_huggingface(p, r)
    IN  [cache |-> IF hit THEN s.cache ELSE (key :> value) @@ s.cache,
         net |-> IF hit THEN s.net ELSE s.net + 1,
         log |-> s.log \cup {[key |-> key, value |-> value, network |-> ~hit,
                               failed |-> ~hit /\ Failed(r)]},
         results |-> Append(s.results, value)]

AnswerLen == 105

\* A generated answer: a long first line, a blank line, an indented line.
Answer ==
    <<"-", " ">> \o [i \in 1..AnswerLen |-> IF i % 9 = 0 THEN " " ELSE "w"]
        \o <<"\n", " ", "\n", " ", "-", " ", "z", " ">>

\* What the endpoint answers to prompt p, by the state it is in.
NetResponse(kind, p) ==
    CASE kind = "echo" -> Generated(p \o <<" ">> \o Answer \o <<"\n">>)
      [] kind = "timeout" -> Raises(TimeoutMessage)
      [] kind = "busy" -> Status(503)
      [] kind = "garbled" -> NotJson
      [] kind = "scalars" -> JsonList(<<Item(FALSE, FALSE, <<>>)>>)

\* for key, prompt in prompts.items(): response = query_huggingface(...)
\* (lines 103-104, 148-149); kinds[i] is the endpoint's state at call i
RECURSIVE QueryAll(_, _, _, _)
QueryAll(s, prompts, max_length, kinds) ==
    IF prompts = <<>> THEN s
    ELSE QueryAll(Memo(s, Head(prompts), max_length,
                       NetResponse(Head(kinds), Head(prompts))),
                  Tail(prompts), max_length, Tail(kinds))

\* response.strip() if response else "N/A" (lines 106, 150)
Clean(r) == IF r # <<>> THEN Strip(r) ELSE NotAvailable

CleanAll(results) == [i \in 1..Len(results) |-> Clean(results[i])]

---------------------------------------------------------------------------
(* extract_pdf_text, lines 70-78.  A file has a name and either pages of   *)
(* text or bytes pypdf cannot read.                                        *)

RECURSIVE Concat(_)
Concat(pages) ==
    IF pages = <<>> THEN <<>> ELSE Head(pages) \o Concat(Tail(pages))

extract_pdf_text(pdf_file) ==
    IF pdf_file.readable THEN Take(Concat(pdf_file.pages), 5000)
    ELSE ExtractError

---------------------------------------------------------------------------
(* analyze_paper, lines 81-125.                                            *)

\* lines 85-100, in the dict's order
AnalysisPrompts(title, text) ==
    <<SummaryHead \o title \o ContentLabel \o Take(text, 1000) \o SummaryTail,
      FindingsHead \o title \o ContentLabel \o Take(text, 1000)
          \o FindingsTail,
      MethodologyHead \o title \o ContentLabel \o Take(text, 1000)
          \o MethodologyTail>>

\* NextId as a placeholder, like year and category
NextId_Placeholder(n) == 1

\* line 109
NextId(n) == n + 1

\* line 112
Abstract(text) == IF text # <<>> THEN Take(text, 300) ELSE NoContent

\* KeyFindings without the filter: [f.strip() for f in ....split('\n')]
KeyFindings_Unfiltered(findings) ==
    [i \in 1..Len(Split(findings)) |-> Strip(Split(findings)[i])]

\* line 115
KeyFindings(findings) == StrippedNonBlank(Split(findings))

\* lines 108-125: n is len(st.session_state.papers), results the cleaned
\* answers in the prompts' order
PaperRecord(n, title, text, results) ==
    [id |-> NextId(n),
     title |-> title,
     authors |-> <<"AI Extracted">>,
     abstract |-> Abstract(text),
     year |-> 2024,
     executive_summary |-> results[1],
     key_findings |-> KeyFindings(results[2]),
     methodology |-> results[3],
     sections |-> <<[title |-> "Abstract", summary |-> Take(text, 200)],
                    [title |-> "Methodology", summary |-> results[3]],
                    [title |-> "Findings", summary |-> results[2]]>>,
     keywords |-> <<"AI", "Research">>,
     category |-> "Computer Science",
     status |-> "completed"]

\* s = [cache, net, log]; the result adds the record as paper
analyze_paper(s, n, title, text, kinds) ==
    LET q == QueryAll([cache |-> s.cache, net |-> s.net, log |-> s.log,
                       results |-> <<>>],
                      AnalysisPrompts(title, text), 300, kinds)
    IN  [cache |-> q.cache, net |-> q.net, log |-> q.log,
         paper |-> PaperRecord(n, title, text, CleanAll(q.results))]

---------------------------------------------------------------------------
(* compare_papers, lines 128-181.                                          *)

\* line 131
PapersText(selected) ==
    Join([i \in 1..Len(selected) |->
             selected[i].title \o <<":", " ">>
                 \o Take(selected[i].executive_summary, 200)])

\* lines 133-145
ComparisonPrompts(selected) ==
    <<AgreementsHead \o PapersText(selected) \o AgreementsTail,
      ContradictionsHead \o PapersText(selected) \o ContradictionsTail,
      GapsHead \o PapersText(selected) \o GapsTail>>

\* UniqueContributions with the slice of line 131
UniqueContributions_Slice200(selected) ==
    [i \in 1..Len(selected) |->
        [paper |-> selected[i].title,
         contribution |-> Take(selected[i].executive_summary, 200)]]

\* lines 176-179
UniqueContributions(selected) ==
    [i \in 1..Len(selected) |->
        [paper |-> selected[i].title,
         contribution |-> Take(selected[i].executive_summary, 100)]]

\* lines 152-181
ComparisonRecord(selected, results) ==
    [papers |-> selected,
     analysis |->
        [common_themes |-> <<"AI", "Research", "Analysis">>,
         agreements |->
            <<[title |-> "Common Research Focus",
               description |-> results[1],
               papers |-> [i \in 1..Len(selected) |-> selected[i].title]]>>,
         contradictions |->
            <<[title |-> "Methodological Differences",
               description |-> results[2],
               conflicting_views |-> StrippedNonBlank(Split(results[2]))]>>,
         research_gaps |->
            <<[gap |-> results[3],
               potential_impact |->
                   "Addressing these gaps could advance the field"]>>,
         unique_contributions |-> UniqueContributions(selected)]]

compare_papers(s, selected, kinds) ==
    LET q == QueryAll([cache |-> s.cache, net |-> s.net, log |-> s.log,
                       results |-> <<>>],
                      ComparisonPrompts(selected), 400, kinds)
    IN  [cache |-> q.cache, net |-> q.net, log |-> q.log,
         result |-> ComparisonRecord(selected, CleanAll(q.results))]

---------------------------------------------------------------------------
(* The session store and the pages, lines 34-37 and 183-302.               *)

Pages == {"Library", "Upload Paper", "Compare Papers"}

\* max_selections of the multiselect, line 260
MaxSelections == 5

SessionInit ==
    /\ page = "Library"
    /\ papers = <<>>
    /\ comparison_result = <<>>
    /\ selected_titles = {}
    /\ cache = [k \in {} |-> <<>>]
    /\ netCalls = 0
    /\ callLog = {}
    /\ analyzed = <<>>

\* Navigate that drops the stored comparison when the page changes
Navigate_DropsResult(p) ==
    /\ p # page
    /\ page' = p
    /\ selected_titles' = {}
    /\ comparison_result' = <<>>
    /\ UNCHANGED <<papers, cache, netCalls, callLog, analyzed>>
    /\ UNCHANGED queryVars

\* line 186: the radio is changed.  A widget that a run does not render
\* loses its value, so the multiselect starts empty on each visit.
Navigate(p) ==
    /\ p # page
    /\ page' = p
    /\ selected_titles' = {}
    /\ UNCHANGED <<papers, comparison_result, cache, netCalls, callLog,
                   analyzed>>
    /\ UNCHANGED queryVars

\* lines 240-245: the loop over the uploaded files; s carries the memo and
\* the paper list, kinds[i] the endpoint's states during file i
RECURSIVE AnalyzeFiles(_, _, _)
AnalyzeFiles(s, files, kinds) ==
    IF files = <<>> THEN s
    ELSE LET file == Head(files)
             pdf_text == extract_pdf_text(file)
             title == Replace(file.name, PdfSuffix, <<>>)
             a == analyze_paper(s, Len(s.papers), title, pdf_text,
                                Head(kinds))
         IN  AnalyzeFiles([cache |-> a.cache, net |-> a.net, log |-> a.log,
                           papers |-> Append(s.papers, a.paper),
                           analyzed |-> Append(s.analyzed,
                                               [title |-> title,
                                                text |-> pdf_text])],
                          Tail(files), Tail(kinds))

\* lines 233-250: the analyze button, with uploaded_files in the uploader
Analyze(uploaded_files, kinds) ==
    /\ page = "Upload Paper"
    /\ uploaded_files # <<>>
    /\ LET s == AnalyzeFiles([cache |-> cache, net |-> netCalls,
                              log |-> callLog, papers |-> papers,
                              analyzed |-> analyzed],
                             uploaded_files, kinds)
       IN  /\ papers' = s.papers
           /\ cache' = s.cache
           /\ netCalls' = s.net
           /\ callLog' = s.log
           /\ analyzed' = s.analyzed
    /\ UNCHANGED <<page, comparison_result, selected_titles>>
    /\ UNCHANGED queryVars

\* line 259
Titles == {papers[i].title : i \in 1..Len(papers)}

\* line 260: the multiselect is rendered with two papers or more, and
\* returns the options chosen, at most max_selections of them
SelectTitles(chosen) ==
    /\ page = "Compare Papers"
    /\ Len(papers) >= 2
    /\ chosen \subseteq Titles
    /\ Cardinality(chosen) <= MaxSelections
    /\ chosen # selected_titles
    /\ selected_titles' = chosen
    /\ UNCHANGED <<page, papers, comparison_result, cache, netCalls,
                   callLog, analyzed>>
    /\ UNCHANGED queryVars

\* CompareEnabled with the test off by one: len(selected_titles) >= 1
CompareEnabled_OneTitle ==
    Len(papers) >= 2 /\ Cardinality(selected_titles) >= 1

\* line 262
CompareEnabled == Len(papers) >= 2 /\ Cardinality(selected_titles) >= 2

\* line 265
Selected == SelectSeq(papers, LAMBDA p : p.title \in selected_titles)

\* lines 262-266: the compare button
Compare(kinds) ==
    /\ page = "Compare Papers"
    /\ CompareEnabled
    /\ LET c == compare_papers([cache |-> cache, net |-> netCalls,
                                log |-> callLog], Selected, kinds)
       IN  /\ comparison_result' = <<c.result>>
           /\ cache' = c.cache
           /\ netCalls' = c.net
           /\ callLog' = c.log
    /\ UNCHANGED <<page, papers, selected_titles, analyzed>>
    /\ UNCHANGED queryVars

\* lines 269 and 300-302: the button is drawn below a stored result
NewComparison ==
    /\ page = "Compare Papers"
    /\ Len(papers) >= 2
    /\ comparison_result # <<>>
    /\ comparison_result' = <<>>
    /\ UNCHANGED <<page, papers, selected_titles, cache, netCalls, callLog,
                   analyzed>>
    /\ UNCHANGED queryVars

---------------------------------------------------------------------------
(* The inputs of a session.                                                *)

MaxPapers == 3
MaxBatch == 2
TextLen == 12

PaperText == [i \in 1..TextLen |-> IF i % 6 = 0 THEN " " ELSE "t"]

File(name, readable, pages) ==
    [name |-> name, readable |-> readable, pages |-> pages]

FileA == File(<<"A", ".", "p", "d", "f">>, TRUE, <<PaperText, <<"\n">>>>)

\* a scanned PDF: one page with no text
FileB == File(<<"B", ".", "p", "d", "f">>, TRUE, <<<<>>>>)

Files == {FileA, FileB}

RECURSIVE SeqsUpTo(_, _)
SeqsUpTo(S, n) ==
    IF n = 0 THEN {<<>>}
    ELSE LET shorter == SeqsUpTo(S, n - 1)
         IN  shorter \cup {Append(q, x) : q \in shorter, x \in S}

Facets == 1..3

QueryIdle ==
    /\ prompt = <<>>
    /\ response = Status(500)
    /\ returned = <<>>
    /\ pc = "idle"

\* The endpoint's state at each of the three calls of one analysis or
\* comparison: up, or down with a timeout, a 503 and a body that is not JSON.
Up == [f \in Facets |-> "echo"]

Down == [f \in Facets |-> <<"timeout", "busy", "garbled">>[f]]

SessionNext(batches, outages, maxPapers) ==
    \/ \E p \in Pages : Navigate(p)
    \/ \E batch \in batches :
          /\ Len(papers) + Len(batch) <= maxPapers
          /\ \E ks \in [1..Len(batch) -> outages] : Analyze(batch, ks)
    \/ \E chosen \in SUBSET Titles : SelectTitles(chosen)
    \/ \E ks \in outages : Compare(ks)
    \/ NewComparison

Next == SessionNext(SeqsUpTo(Files, MaxBatch), {Up, Down}, MaxPapers)

Init == SessionInit /\ QueryIdle

Spec == Init /\ [][Next]_vars

---------------------------------------------------------------------------
(* SpecLibrary: a session with a working endpoint and a library of up to   *)
(* MaxLibrary papers, where each upload holds both files.                  *)

MaxLibrary == 6

NextLibrary ==
    SessionNext({<<FileA, FileB>>, <<FileB, FileA>>}, {Up}, MaxLibrary)

SpecLibrary == Init /\ [][NextLibrary]_vars

---------------------------------------------------------------------------
(* SpecOutage: the Upload page under every state of the endpoint at each   *)
(* of the three calls of an analysis.                                      *)

MaxOutagePapers == 2

Kinds == {"echo", "timeout", "busy", "garbled", "scalars"}

NextOutage ==
    \/ \E p \in Pages : Navigate(p)
    \/ \E ks \in [Facets -> Kinds] :
          /\ Len(papers) < MaxOutagePapers
          /\ Analyze(<<FileA>>, <<ks>>)

SpecOutage == Init /\ [][NextOutage]_vars

---------------------------------------------------------------------------
(* SpecQuery: query_huggingface as a function of its prompt and of the     *)
(* response, over every short prompt and generated text.                   *)

MaxPromptLen == 2
MaxTextLen == 4

Alphabet == {"a", "N", " "}

RECURSIVE Strings(_)
Strings(n) ==
    IF n = 0 THEN {<<>>}
    ELSE LET shorter == Strings(n - 1)
         IN  shorter \cup {Append(s, c) : s \in shorter, c \in Alphabet}

QueryResponses ==
    {Generated(t) : t \in Strings(MaxTextLen)}
        \cup {Raises(TimeoutMessage), Status(500), Status(404), NotJson,
              JsonObject, JsonList(<<>>),
              JsonList(<<Item(TRUE, FALSE, <<>>)>>),
              JsonList(<<Item(FALSE, FALSE, <<>>)>>)}

InitQuery ==
    /\ SessionInit
    /\ prompt \in Strings(MaxPromptLen)
    /\ response \in QueryResponses
    /\ returned = <<>>
    /\ pc = "call"

Call ==
    /\ pc = "call"
    /\ returned' = query_huggingface(prompt, response)
    /\ pc' = "done"
    /\ UNCHANGED <<prompt, response>>
    /\ UNCHANGED sessionVars

NextQuery == Call

SpecQuery == InitQuery /\ [][NextQuery]_vars

---------------------------------------------------------------------------
(* The properties checked.                                                 *)

\* a string query_huggingface returns for a failed request
IsFailure(v) ==
    \/ StartsWith(v, ApiErrorPrefix)
    \/ StartsWith(v, QueryErrorPrefix)
    \/ v = InvalidFormat

\* the keys of the three calls of analyze_paper(title, text)
AnalysisKeys(title, text) ==
    [f \in Facets |-> CacheKey(AnalysisPrompts(title, text)[f], 300)]

\* w occurs in s
Contains(s, w) ==
    \E i \in 1..(Len(s) - Len(w) + 1) : SubSeq(s, i, i + Len(w) - 1) = w

\* s is t[:Len(s)]
IsPrefix(s, t) == Len(s) <= Len(t) /\ SubSeq(t, 1, Len(s)) = s

\* C1: the ids of the session's papers are pairwise distinct and strictly
\* increasing in list order, whatever the user did.
C1_IdsIncreasing ==
    \A i, j \in 1..Len(papers) : i < j => papers[i].id < papers[j].id

\* Three papers, two of them from the same file, analyzed in the session.
C1_Witness ==
    /\ Len(papers) >= 3
    /\ \E i, j \in 1..Len(papers) : i < j /\ papers[i].title = papers[j].title

\* C2: a stored ComparisonRecord holds 2 to 5 PaperRecords with 2 to 5
\* distinct titles, all of them records of the session's paper list.
C2_ComparisonSize ==
    comparison_result # <<>> =>
        LET compared == comparison_result[1].papers
            titles == {compared[i].title : i \in 1..Len(compared)}
        IN  /\ Len(compared) >= 2
            /\ Len(compared) <= MaxSelections
            /\ Cardinality(titles) >= 2
            /\ Cardinality(titles) <= MaxSelections
            /\ \A i \in 1..Len(compared) :
                  \E j \in 1..Len(papers) : papers[j] = compared[i]

\* C3: with fewer than 2 titles selected, or fewer than 2 papers in the
\* session, no step stores a ComparisonRecord, and no step on the Compare
\* page calls the inference client: the stored result stays or is reset.
C3_NoCompareBelowTwo ==
    [][(Cardinality(selected_titles) < 2 \/ Len(papers) < 2) =>
          /\ comparison_result' \in {comparison_result, <<>>}
          /\ (page = "Compare Papers" /\ page' = page =>
                 cache' = cache /\ netCalls' = netCalls /\ callLog' = callLog)
      ]_vars

\* One title is selected on the Compare page, under an earlier result.
C3_Witness ==
    /\ page = "Compare Papers"
    /\ Cardinality(selected_titles) = 1
    /\ comparison_result # <<>>

\* C4: every call with the same (prompt, max_new_tokens) returned the same
\* string, only the first of them posted, and the requests made are as
\* many as the distinct pairs invoked.
C4_Memoized ==
    /\ \A a, b \in callLog : a.key = b.key => a.value = b.value
    /\ \A a, b \in callLog :
          a.key = b.key /\ a.network /\ b.network => a = b
    /\ \A a \in callLog : \E b \in callLog : b.key = a.key /\ b.network
    /\ netCalls = Cardinality({a.key : a \in callLog})
    /\ \A a \in callLog : a.key \in DOMAIN cache /\ cache[a.key] = a.value

\* A pair was invoked again and answered from the memo.
C4_Witness ==
    \E a, b \in callLog : a.key = b.key /\ a.network /\ ~b.network

\* C7 as stated: a paper analyzed from empty text has the empty abstract,
\* status "completed" and no key findings.
C7_EmptyTextRecord ==
    \A i \in 1..Len(papers) :
        analyzed[i].text = <<>> =>
            /\ papers[i].abstract = <<>>
            /\ papers[i].status = "completed"
            /\ papers[i].key_findings = <<>>

\* C7 amended: a paper analyzed from empty text has the abstract
\* "No content", status "completed" and at least one key finding; from any
\* other text, the abstract is its first 300 characters; and in every paper
\* each key finding is a line of the findings answer, stripped and not blank.
C7_EmptyTextNoContent ==
    \A i \in 1..Len(papers) :
        LET text == analyzed[i].text
            lines == Split(papers[i].sections[3].summary)
            findings == papers[i].key_findings
        IN  /\ papers[i].status = "completed"
            /\ text = <<>> =>
                  papers[i].abstract = NoContent /\ findings # <<>>
            /\ text # <<>> =>
                  /\ IsPrefix(papers[i].abstract, text)
                  /\ Len(papers[i].abstract) = IF Len(text) < 300
                                               THEN Len(text) ELSE 300
            /\ \A k \in 1..Len(findings) :
                  /\ findings[k] # <<>>
                  /\ ~IsSpace(findings[k][1])
                  /\ ~IsSpace(findings[k][Len(findings[k])])
                  /\ \E n \in 1..Len(lines) : Strip(lines[n]) = findings[k]
            /\ Len(findings) =
                  Cardinality({n \in 1..Len(lines) : Strip(lines[n]) # <<>>})

\* A paper from empty text whose findings answer held a blank line.
C7_Witness ==
    \E i \in 1..Len(papers) :
        /\ analyzed[i].text = <<>>
        /\ \E n \in 1..Len(Split(papers[i].sections[3].summary)) :
              Strip(Split(papers[i].sections[3].summary)[n]) = <<>>

\* C8: a comparison over 2 to 5 papers holds as many unique_contributions
\* as papers, the i-th with the i-th paper's title and the first 100
\* characters of that paper's executive summary.
C8_UniqueContributions ==
    comparison_result # <<>> =>
        LET compared == comparison_result[1].papers
            unique == comparison_result[1].analysis.unique_contributions
        IN  Len(compared) >= 2 /\ Len(compared) <= MaxSelections =>
                /\ Len(unique) = Len(compared)
                /\ \A i \in 1..Len(compared) :
                      LET summary == compared[i].executive_summary
                      IN  /\ unique[i].paper = compared[i].title
                          /\ IsPrefix(unique[i].contribution, summary)
                          /\ Len(unique[i].contribution) =
                                 IF Len(summary) < 100 THEN Len(summary)
                                 ELSE 100

\* Papers "A" and "B" were compared, one with a summary over 100
\* characters, one with a shorter one.
C8_Witness ==
    /\ comparison_result # <<>>
    /\ LET compared == comparison_result[1].papers
       IN  /\ \E i \in 1..Len(compared) : compared[i].title = <<"A">>
           /\ \E i \in 1..Len(compared) : compared[i].title = <<"B">>
           /\ \E i \in 1..Len(compared) :
                 Len(compared[i].executive_summary) > 100
           /\ \E i \in 1..Len(compared) :
                 Len(compared[i].executive_summary) < 100

\* C9: the store starts empty; a page change touches neither part; the
\* paper list only grows at its end, and not in a step that changes the
\* comparison result; at most one result is held; and a result is made
\* absent only on the Compare page, by a step that calls nothing and
\* leaves the papers alone.
C9_Frame ==
    /\ papers = <<>> /\ comparison_result = <<>>
    /\ [][/\ Len(comparison_result') <= 1
          /\ (page' # page =>
                 papers' = papers /\ comparison_result' = comparison_result)
          /\ IsPrefix(papers, papers')
          /\ (papers' # papers => comparison_result' = comparison_result)
          /\ (comparison_result # <<>> /\ comparison_result' = <<>> =>
                 /\ page = "Compare Papers" /\ page' = page
                 /\ papers' = papers
                 /\ selected_titles' = selected_titles
                 /\ cache' = cache /\ netCalls' = netCalls)
      ]_vars

\* A comparison was made and reset, and the user is back in the Library.
C9_Witness ==
    /\ page = "Library"
    /\ Len(papers) >= 2
    /\ comparison_result = <<>>
    /\ \E a \in callLog : a.key[2] = 400

\* C10: a memoized failure stays: a later identical call returns it
\* without a request, so analyzing the same title and text again, or
\* comparing the same papers again, repeats each failed facet.
C10_FailuresStay ==
    [][/\ \A k \in DOMAIN cache :
             IsFailure(cache[k]) =>
                 /\ k \in DOMAIN cache' /\ cache'[k] = cache[k]
                 /\ \A a \in callLog' \ callLog :
                       a.key = k => a.value = cache[k] /\ ~a.network
       /\ \A i \in 1..Len(papers), j \in (Len(papers) + 1)..Len(papers') :
             analyzed'[j] = analyzed[i] =>
                 /\ IsFailure(papers[i].executive_summary) =>
                       papers'[j].executive_summary
                           = papers[i].executive_summary
                 /\ IsFailure(papers[i].sections[3].summary) =>
                       /\ papers'[j].sections[3].summary
                              = papers[i].sections[3].summary
                       /\ papers'[j].key_findings = papers[i].key_findings
                 /\ IsFailure(papers[i].methodology) =>
                       papers'[j].methodology = papers[i].methodology
       /\ (/\ comparison_result # <<>>
           /\ comparison_result' # <<>>
           /\ comparison_result'[1].papers = comparison_result[1].papers) =>
             LET old == comparison_result[1].analysis
                 new == comparison_result'[1].analysis
             IN  /\ IsFailure(old.agreements[1].description) =>
                       new.agreements[1] = old.agreements[1]
                 /\ IsFailure(old.contradictions[1].description) =>
                       new.contradictions[1] = old.contradictions[1]
                 /\ IsFailure(old.research_gaps[1].gap) =>
                       new.research_gaps[1] = old.research_gaps[1]
      ]_vars

\* A failed analysis call and a failed comparison call were both repeated.
C10_Witness ==
    /\ \E a \in callLog :
          ~a.network /\ IsFailure(a.value) /\ a.key[2] = 300
    /\ \E a \in callLog :
          ~a.network /\ IsFailure(a.value) /\ a.key[2] = 400

\* a 200 response whose first item's generated_text begins with the prompt
Echoed ==
    /\ ~response.raised
    /\ response.status_code = 200
    /\ response.json = "list"
    /\ Len(response.items) > 0
    /\ response.items[1].dict
    /\ response.items[1].has_text
    /\ StartsWith(response.items[1].generated_text, prompt)

\* C5 as stated, on its plainest case, a non-empty prompt and a result
\* that is not the "No response generated" default: when the generated
\* text begins with the prompt, the returned string does not.
C5_PromptNeverPrefix ==
    pc = "done" /\ Echoed /\ prompt # <<>> /\ returned # NoResponse =>
        ~StartsWith(returned, prompt)

\* C5 amended: when the generated text begins with the prompt, the returned
\* string is the trimmed text without one leading copy of the prompt and
\* the whitespace after it, if the trimmed text still begins with the
\* prompt, and else the trimmed text; "No response generated" if that is
\* empty.
C5_OneEchoRemoved ==
    pc = "done" /\ Echoed =>
        LET g == Strip(response.items[1].generated_text)
            n == Len(prompt)
        IN  IF StartsWith(g, prompt)
            THEN \E w \in 0..(Len(g) - n) :
                    /\ \A i \in (n + 1)..(n + w) : IsSpace(g[i])
                    /\ IF n + w = Len(g) THEN returned = NoResponse
                       ELSE /\ ~IsSpace(g[n + w + 1])
                            /\ returned =
                                   [i \in 1..(Len(g) - n - w) |-> g[n + w + i]]
            ELSE returned = IF g = <<>> THEN NoResponse ELSE g

\* The text echoed the prompt twice, and the result begins with it.
C5_Witness ==
    /\ pc = "done"
    /\ Echoed
    /\ prompt # <<>>
    /\ returned # NoResponse
    /\ StartsWith(returned, prompt)

\* the call with key k posted and failed
FacetFailed(k) ==
    \E a \in callLog : a.key = k /\ a.network /\ a.failed

\* C6: a call whose request timed out, raised or came back with another
\* status than 200 returned a string holding "Error"; every analysis made
\* its three calls and appended a record with status "completed", whose
\* fields carry the error strings of the calls that failed.
C6_FailuresBecomeContent ==
    /\ \A a \in callLog :
          a.network /\ a.failed => Contains(a.value, ErrorWord)
    /\ Len(papers) = Len(analyzed)
    /\ \A i \in 1..Len(papers) :
          LET keys == AnalysisKeys(analyzed[i].title, analyzed[i].text)
          IN  /\ papers[i].status = "completed"
              /\ papers[i].title = analyzed[i].title
              /\ \A f \in Facets : \E a \in callLog : a.key = keys[f]
              /\ FacetFailed(keys[1]) =>
                    /\ Contains(papers[i].executive_summary, ErrorWord)
                    /\ papers[i].executive_summary = cache[keys[1]]
              /\ FacetFailed(keys[2]) =>
                    /\ Contains(papers[i].sections[3].summary, ErrorWord)
                    /\ papers[i].key_findings = <<cache[keys[2]]>>
              /\ FacetFailed(keys[3]) =>
                    /\ Contains(papers[i].methodology, ErrorWord)
                    /\ papers[i].methodology = cache[keys[3]]

\* A paper whose three calls failed: a timeout, a 503 and a body that is
\* not JSON.
C6_Witness ==
    \E i \in 1..Len(papers) :
        /\ papers[i].executive_summary = QueryErrorPrefix \o TimeoutMessage
        /\ papers[i].key_findings = <<ApiErrorPrefix \o <<"5", "0", "3">>>>
        /\ papers[i].methodology = QueryErrorPrefix \o JsonMessage
        /\ papers[i].status = "completed"

=============================================================================
